---- MODULE Spec2Model ----
(***************************************************************************)
(* Verification model of the NERIS dashboard suite (Streamlit scripts).    *)
(*                                                                         *)
(* SpecWeather : dashboard04.py, one script run after another:             *)
(*               render_top_days_analysis, then the fetch loop of          *)
(*               render_weather_correlation over get_weather_for_day       *)
(*               (memoised by st.cache_data on all four arguments).        *)
(* SpecFilter  : the filter stage of dashboard00.py, pages/dashboard01.py, *)
(*               dashboard01.py and dashboard03.py, one script run per     *)
(*               step over the frame the script loaded.                    *)
(* SpecLoad    : the normalizers load_data of dashboard00.py,              *)
(*               pages/dashboard01.py, dashboard01.py and                  *)
(*               pages/dashboard02.py and load_all_data of                 *)
(*               dashboard_combine.py over the rows of a file, then the    *)
(*               density tab of dashboard_combine.py over the loaded frame.*)
(* SpecTopDays : render_top_days_analysis of dashboard04.py over frames    *)
(*               of more days than the table keeps.                        *)
(* SpecCategory: the categorical views of pages/dashboard02.py and         *)
(*               dashboard_combine.py and the daily details of             *)
(*               dashboard04.py over the loaded frame.                     *)
(* SpecGeo     : main of dashboard01.py and dashboard03.py and the         *)
(*               geospatial tab of dashboard_combine.py: the load with its *)
(*               failures, then the sidebar, the filters and the panels.   *)
(* The variables of the specifications that are not running are parked.    *)
(***************************************************************************)
EXTENDS Integers, Sequences, FiniteSets, TLC

(***************************************************************************)
(* Bounds of the model.                                                    *)
(***************************************************************************)
NumDays == 2

Days == 1..NumDays

MaxRows == 3

\* Candidate latitudes of incident rows and the one longitude used.
Lats == {40, 43}

Lons == {-74}

\* Values of the sidebar's API key field; NoKey is the empty text input.
APIKeys == {"k1", "k2"}

NoKey == ""

(***************************************************************************)
(* Optional values: Python's None is the empty sequence, a present value v *)
(* is the one-element sequence <<v>>.                                      *)
(***************************************************************************)
None == <<>>

Some(v) == <<v>>

IsNone(o) == o = <<>>

Val(o) == o[1]

Min(a, b) == IF a <= b THEN a ELSE b

Max(a, b) == IF a >= b THEN a ELSE b

(***************************************************************************)
(* Exact means.  Series.mean() of a day's coordinates is modelled as the   *)
(* reduced fraction <<numerator, denominator>>, so that two means are      *)
(* equal exactly when the fractions are.                                   *)
(***************************************************************************)
Abs(n) == IF n < 0 THEN -n ELSE n

RECURSIVE Gcd(_, _)
Gcd(a, b) == IF b = 0 THEN a ELSE Gcd(b, a % b)

RECURSIVE SumOver(_, _)
SumOver(S, f) ==
    IF S = {} THEN 0
    ELSE LET x == CHOOSE y \in S : TRUE
         IN  f[x] + SumOver(S \ {x}, f)

Fraction(num, den) ==
    LET g == Gcd(Abs(num), den)
    IN  <<num \div g, den \div g>>

mean(rows, col) ==
    Fraction(SumOver(rows, [r \in rows |-> r[col]]), Cardinality(rows))

(***************************************************************************)
(* dashboard04.py: the loaded frame and the top-10 table.                  *)
(***************************************************************************)
Row == [date : Days, latitude : Lats, longitude : Lons]

\* The frames tried: at most MaxRows rows, and a day's second row (latitude
\* 43) comes with its first (latitude 40), so a day has 0, 1 or 2 incidents.
Frames ==
    {d \in SUBSET Row :
        /\ Cardinality(d) <= MaxRows
        /\ \A r \in d : r.latitude = 43 => [r EXCEPT !.latitude = 40] \in d}

DayIncidents(d, day) == {r \in d : r.date = day}

\* Mutant: the table marks the dates present instead of counting rows.
daily_counts_Presence(d) == [day \in {r.date : r \in d} |-> 1]

\* df.groupby('date').size(): one count per date present in the frame.
daily_counts(d) ==
    [day \in {r.date : r \in d} |-> Cardinality(DayIncidents(d, day))]

HeadSize == 10

\* sort_values(by='incident_count', ascending=False) of the counts table:
\* every ordering by descending count; the order among equal counts is
\* left to the sort (default kind 'quicksort', one key).
RECURSIVE sort_values(_)
sort_values(dc) ==
    IF DOMAIN dc = {}
    THEN {<<>>}
    ELSE LET top == {d \in DOMAIN dc : \A e \in DOMAIN dc : dc[d] >= dc[e]}
         IN  UNION {{<<[date |-> d, incident_count |-> dc[d]]>> \o t :
                        t \in sort_values([e \in DOMAIN dc \ {d} |-> dc[e]])} :
                    d \in top}

\* Mutant: a head that keeps one row more.
head_OneMore(s, n) == SubSeq(s, 1, Min(n + 1, Len(s)))

\* DataFrame.head(n): the first n rows, all of them when there are fewer.
head(s, n) == SubSeq(s, 1, Min(n, Len(s)))

\* Lines 94-95: the counts table sorted and cut after HeadSize rows.
render_top_days_analysis(d) ==
    {head(s, HeadSize) : s \in sort_values(daily_counts(d))}

(***************************************************************************)
(* The weather service as seen by get_weather_for_day.                     *)
(*   ok          200, body carries temperature.max and precipitation.total *)
(*   no_temp     200, body without temperature.max                         *)
(*   no_precip   200, body without precipitation.total                     *)
(*   http_error  4xx/5xx (bad key 401, rate limit 429): raise_for_status   *)
(*   conn_error  no response at all (requests.ConnectionError, Timeout)    *)
(*   not_object  200, JSON whose top level, 'temperature' or               *)
(*               'precipitation' is not an object: .get raises             *)
(*               AttributeError, which is no requests.RequestException     *)
(***************************************************************************)
Responses ==
    {"ok", "no_temp", "no_precip", "http_error", "conn_error", "not_object"}

\* What the service would report for a day.
TempOf(day) == 20 + day

PrecipOf(day) == day

\* The exceptions the try block lets through.
Raises(resp) == resp = "not_object"

\* The value get_weather_for_day returns when it returns.  fetched_for is a
\* history field (the dict of the code has no date): the day of the request.
get_weather_for_day(day, resp) ==
    IF resp \in {"http_error", "conn_error"}
    THEN None
    ELSE Some([max_temp_c |->
                   IF resp = "no_temp" THEN None ELSE Some(TempOf(day)),
               total_precipitation_mm |->
                   IF resp = "no_precip" THEN None ELSE Some(PrecipOf(day)),
               fetched_for |-> day])

\* Mutant: the memo ignores the credential.
CacheKey_NoCredential(lat, lon, day, key) == <<lat, lon, day, NoKey>>

\* st.cache_data keys the memo on every argument of the call.
CacheKey(lat, lon, day, key) == <<lat, lon, day, key>>

VARIABLES
    df,               \* the frame load_data returned (fixed for the session)
    api_key,          \* sidebar text input of the current run
    top_10_df,        \* render_top_days_analysis' result in the current run
    pc,               \* "idle" between script runs, "loop" inside the fetch loop
    i,                \* rows of top_10_df the loop has finished
    weather_data,     \* list of dicts appended by the loop
    failed_requests,  \* counter of None results
    events,           \* UI calls and fetch calls of the current run, in order
    correlation_df,   \* None, or Some(the joined frame handed to the charts)
    outcome,          \* how the last run of the correlator ended
    cache,            \* st.cache_data memo of get_weather_for_day
    last_call,        \* history: arguments of the HTTP request of the latest step
    returned          \* history: the arguments whose HTTP request has returned

wvars == <<df, api_key, top_10_df, pc, i, weather_data, failed_requests,
           events, correlation_df, outcome, cache, last_call, returned>>

\* The filter views (SpecFilter): one dashboard script and its loaded frame.
VARIABLES
    app,              \* which dashboard script is running
    frame,            \* the frame its load_data returned
    criteria,         \* the widget values of the latest script run
    time_filtered_df, \* rows that passed the date-range test of that run
    filtered_df,      \* the frame handed to the map and the charts
    ui                \* st.* calls of that run, in order

fvars == <<app, frame, criteria, time_filtered_df, filtered_df, ui>>

\* The loaders (SpecLoad): a CSV file and what a load function made of it.
VARIABLES
    raw,              \* rows of the CSV file as read by pd.read_csv
    source,           \* the file itself: readable or not, a column it lacks
    loader,           \* the load function that ran, "" before
    loaded,           \* its result: a frame, or the exception it raised
    load_ui           \* st.warning calls of the load function

lvars == <<raw, source, loader, loaded, load_ui>>

vars == <<wvars, fvars, lvars>>

\* The variables of a part of the suite another specification does not run.
WeatherParked ==
    /\ df = {}
    /\ api_key = ""
    /\ top_10_df = <<>>
    /\ pc = "off"
    /\ i = 0
    /\ weather_data = <<>>
    /\ failed_requests = 0
    /\ events = <<>>
    /\ correlation_df = <<>>
    /\ outcome = "none"
    /\ cache = <<>>
    /\ last_call = <<>>
    /\ returned = {}

FilterParked ==
    /\ app = ""
    /\ frame = {}
    /\ criteria = <<>>
    /\ time_filtered_df = {}
    /\ filtered_df = {}
    /\ ui = <<>>

\* A file: there or not, readable by pd.read_csv or not, and the column
\* its header lacks, if any.
Source(file, missing) == [file |-> file, missing |-> missing]

\* The file every column of which can be read.
OkSource == Source("ok", None)

LoadParked ==
    /\ raw = <<>>
    /\ source = OkSource
    /\ loader = ""
    /\ loaded = [status |-> "parked", rows |-> <<>>]
    /\ load_ui = <<>>

Ev(name, a, b) == [ev |-> name, a |-> a, b |-> b]

WeatherInit ==
    /\ df \in Frames
    /\ api_key = NoKey
    /\ top_10_df = <<>>
    /\ pc = "idle"
    /\ i = 0
    /\ weather_data = <<>>
    /\ failed_requests = 0
    /\ events = <<>>
    /\ correlation_df = None
    /\ outcome = "none"
    /\ cache = <<>>
    /\ last_call = None
    /\ returned = {}
    /\ FilterParked
    /\ LoadParked

(***************************************************************************)
(* main(), dashboard04.py 190-211: a script run up to the entry of the     *)
(* fetch loop.  Without an API key the correlator is skipped.              *)
(***************************************************************************)
StartRun ==
    /\ pc = "idle"
    /\ \E key \in APIKeys \cup {NoKey}, top \in render_top_days_analysis(df) :
          /\ api_key' = key
          /\ top_10_df' = top
          /\ i' = 0
          /\ weather_data' = <<>>
          /\ failed_requests' = 0
          /\ correlation_df' = None
          /\ IF key = NoKey
             THEN /\ pc' = "idle"
                  /\ outcome' = "skipped"
                  /\ events' = <<>>
             ELSE /\ pc' = "loop"
                  /\ outcome' = "running"
                  /\ events' = <<Ev("progress", 0, 1)>>
    /\ last_call' = None
    /\ UNCHANGED <<df, cache, returned>>
    /\ UNCHANGED <<fvars, lvars>>

\* Mutant: the progress of the row index instead of the rows done.
progress_OffByOne(idx, total) == Ev("progress", idx, total)

\* Line 122: progress_bar.progress((i + 1) / len(top_10_df), ...), the
\* fraction kept as numerator and denominator.
progress(idx, total) == Ev("progress", idx + 1, total)

\* Lines 117-122: the rest of the loop body once the call has returned.
LoopBody(day, weather, evs) ==
    /\ IF IsNone(weather)
       THEN /\ failed_requests' = failed_requests + 1
            /\ weather_data' = weather_data
       ELSE /\ failed_requests' = failed_requests
            /\ weather_data' = Append(weather_data, Val(weather))
    /\ events' = Append(evs, progress(i, Len(top_10_df)))
    /\ i' = i + 1
    /\ pc' = "loop"
    /\ UNCHANGED <<outcome, correlation_df>>

\* One iteration of the loop, lines 111-122.
FetchDay ==
    /\ pc = "loop"
    /\ i < Len(top_10_df)
    /\ LET row == top_10_df[i + 1]
           day_incidents == DayIncidents(df, row.date)
           avg_lat == mean(day_incidents, "latitude")
           avg_lon == mean(day_incidents, "longitude")
           args == <<avg_lat, avg_lon, row.date, api_key>>
           key == CacheKey(avg_lat, avg_lon, row.date, api_key)
           evs == Append(events, Ev("get_weather", row.date, 0))
       IN  \/ /\ key \in DOMAIN cache
              /\ LoopBody(row.date, cache[key], evs)
              /\ last_call' = None
              /\ UNCHANGED <<cache, returned>>
           \/ /\ key \notin DOMAIN cache
              /\ \E resp \in Responses :
                    /\ last_call' = Some(args)
                    /\ IF Raises(resp)
                       THEN /\ pc' = "idle"
                            /\ outcome' = "exception"
                            /\ events' = evs
                            /\ UNCHANGED <<cache, returned, i, weather_data,
                                           failed_requests, correlation_df>>
                       ELSE /\ cache' = (key :> get_weather_for_day(row.date, resp)) @@ cache
                            /\ returned' = returned \cup {args}
                            /\ LoopBody(row.date,
                                        get_weather_for_day(row.date, resp), evs)
    /\ UNCHANGED <<df, api_key, top_10_df>>
    /\ UNCHANGED <<fvars, lvars>>

\* top_10_df.iloc[:-failed_requests if failed_requests > 0 else len(top_10_df)]
successful_days_df(top, failed) ==
    SubSeq(top, 1, IF failed > 0 THEN Max(0, Len(top) - failed) ELSE Len(top))

\* pd.concat([successful_days_df, weather_df], axis=1) after reset_index():
\* both frames are indexed 0.., rows are joined by index, a side without
\* that index is null.
concat(days_df, weather_df) ==
    [n \in 1..Max(Len(days_df), Len(weather_df)) |->
        [day     |-> IF n <= Len(days_df) THEN Some(days_df[n]) ELSE None,
         weather |-> IF n <= Len(weather_df) THEN Some(weather_df[n]) ELSE None]]

\* Lines 124-134: after the loop.
FinishLoop ==
    /\ pc = "loop"
    /\ i = Len(top_10_df)
    /\ pc' = "idle"
    /\ IF failed_requests = Len(top_10_df)
       THEN /\ events' = events \o <<Ev("empty", 0, 0), Ev("warning", 0, 0)>>
            /\ outcome' = "batch_failure"
            /\ correlation_df' = None
       ELSE /\ events' = events \o <<Ev("empty", 0, 0), Ev("charts", 0, 0)>>
            /\ outcome' = "correlated"
            /\ correlation_df' =
                  Some(concat(successful_days_df(top_10_df, failed_requests),
                              weather_data))
    /\ last_call' = None
    /\ UNCHANGED <<df, api_key, top_10_df, i, weather_data, failed_requests,
                   cache, returned>>
    /\ UNCHANGED <<fvars, lvars>>

WeatherNext ==
    StartRun \/ FetchDay \/ FinishLoop

SpecWeather == WeatherInit /\ [][WeatherNext]_vars

(***************************************************************************)
(* Weather correlator: properties of SpecWeather.                          *)
(***************************************************************************)
Range(f) == {f[x] : x \in DOMAIN f}

FetchEvents == SelectSeq(events, LAMBDA e : e.ev = "get_weather")

Warnings == Len(SelectSeq(events, LAMBDA e : e.ev = "warning"))

HasBothFields(w) ==
    ~IsNone(w.max_temp_c) /\ ~IsNone(w.total_precipitation_mm)

\* The correlator has returned normally from a run.
CorrelatorReturned == pc = "idle" /\ outcome \in {"batch_failure", "correlated"}

\* C1: in the joined correlation set every weather sample sits in the row
\* of the day it was fetched for, whatever the pattern of failed days.
C1_PairedByDay ==
    outcome = "correlated" =>
        \A n \in DOMAIN Val(correlation_df) :
            LET r == Val(correlation_df)[n]
            IN  ~IsNone(r.weather) =>
                    /\ ~IsNone(r.day)
                    /\ Val(r.weather).fetched_for = Val(r.day).date

\* C2: the correlation output has one row per top-N day, in input order,
\* with that day's count and either the day's own sample or no sample; no
\* day with a sample is missing from it.
C2_OneEntryPerDay ==
    outcome = "correlated" =>
        LET out == Val(correlation_df)
        IN  /\ Len(out) = Len(top_10_df)
            /\ \A n \in 1..Len(out) :
                  /\ n <= Len(top_10_df)
                  /\ out[n].day = Some(top_10_df[n])
                  /\ \/ IsNone(out[n].weather)
                     \/ Val(out[n].weather).fetched_for = top_10_df[n].date
            /\ \A w \in Range(weather_data) :
                  \E n \in 1..Len(out) :
                      /\ out[n].weather = Some(w)
                      /\ out[n].day # None
                      /\ Val(out[n].day).date = w.fetched_for

\* C3: a response without the maximum temperature or without the total
\* precipitation is a failed fetch: no sample the loop keeps, and no value
\* get_weather_for_day has returned as a success, lacks a field.
C3_MissingFieldIsFailure ==
    /\ \A n \in 1..Len(weather_data) : HasBothFields(weather_data[n])
    /\ \A k \in DOMAIN cache :
          IsNone(cache[k]) \/ HasBothFields(Val(cache[k]))

\* Every day of the batch ended in a fetch failure in the sense of C3: no
\* response, a non-success response, or a response lacking a field.
AllFetchesFailed ==
    failed_requests
      + Cardinality({n \in 1..Len(weather_data) :
                        ~HasBothFields(weather_data[n])})
      = Len(top_10_df)

\* C4: for a non-empty batch the consolidated warning is shown exactly when
\* every day's fetch failed, once, never during the loop, and then no
\* correlation output is produced.
C4_BatchFailureIffAllFailed ==
    /\ Warnings <= 1
    /\ pc = "loop" => Warnings = 0
    /\ (CorrelatorReturned /\ Len(top_10_df) > 0) =>
          /\ (Warnings = 1) <=> AllFetchesFailed
          /\ AllFetchesFailed => IsNone(correlation_df)

\* C5: a run that entered the fetch loop has called the fetch for every
\* top-N day by the time the run is over: no day's failure aborts the rest.
C5_LoopRunsToCompletion ==
    (pc = "idle" /\ outcome \notin {"none", "skipped"}) =>
        /\ Len(FetchEvents) = Len(top_10_df)
        /\ \A n \in 1..Len(top_10_df) : FetchEvents[n].a = top_10_df[n].date

\* C6: within a run the fetches are called one after the other in top-N
\* order, one per day, each returned fetch followed by its progress report
\* k/N before the next fetch, and the last report of a finished loop is N/N.
C6_SequentialWithProgress ==
    LET n == Len(top_10_df)
    IN  events # <<>> =>
          /\ events[1] = Ev("progress", 0, 1)
          /\ Len(events) >= 2 * i + 1
          /\ \A k \in 1..i :
                /\ events[2 * k] = Ev("get_weather", top_10_df[k].date, 0)
                /\ events[2 * k + 1] = Ev("progress", k, n)
          /\ \A a, b \in 1..Len(FetchEvents) :
                a # b => FetchEvents[a].a # FetchEvents[b].a
          /\ pc = "loop" => Len(events) = 2 * i + 1
          /\ outcome = "exception" =>
                /\ Len(events) = 2 * i + 2
                /\ events[2 * i + 2] = Ev("get_weather", top_10_df[i + 1].date, 0)
          /\ CorrelatorReturned =>
                /\ i = n
                /\ Len(events) = 2 * n + 3
                /\ events[2 * n + 2].ev = "empty"
                /\ n > 0 => /\ events[2 * n + 1].a = events[2 * n + 1].b
                            /\ events[2 * n + 1].ev = "progress"

\* Witness of C6: a finished loop over at least two days with a failed day.
C6_Witness ==
    /\ CorrelatorReturned
    /\ outcome = "correlated"
    /\ Len(top_10_df) >= 2
    /\ failed_requests >= 1

\* The coordinate rounding the specification speaks of: a mean to the
\* nearest whole unit, halves up.
RoundCoord(f) == (2 * f[1] + f[2]) \div (2 * f[2])

RoundedKey(lat, lon, day) == <<RoundCoord(lat), RoundCoord(lon), day>>

CurrentArgs ==
    LET row == top_10_df[i + 1]
        day_incidents == DayIncidents(df, row.date)
    IN  <<mean(day_incidents, "latitude"), mean(day_incidents, "longitude"),
          row.date, api_key>>

C20_TiesEarliestFirst ==
    LET dc == daily_counts(df)
        n == Len(top_10_df)
        Before(x, y) ==
            \/ x.incident_count > y.incident_count
            \/ x.incident_count = y.incident_count /\ x.date < y.date
    IN  /\ \A a, b \in 1..n : a < b => Before(top_10_df[a], top_10_df[b])
        /\ \A a \in 1..n :
              \A d \in DOMAIN dc \ {top_10_df[b].date : b \in 1..n} :
                  Before(top_10_df[a], [date |-> d, incident_count |-> dc[d]])

\* C30: with an empty top-day list the correlator calls no fetch and does
\* not report the batch failure; the consolidated warning is shown only
\* after at least one fetch was called and every fetch of the run failed.
C30_NoWarningWithoutFetch ==
    /\ (pc \in {"loop", "idle"} /\ outcome # "none" /\ Len(top_10_df) = 0)
       => /\ Len(FetchEvents) = 0
          /\ Warnings = 0
          /\ outcome # "batch_failure"
    /\ Warnings > 0
       => /\ Len(FetchEvents) >= 1
          /\ failed_requests = Len(FetchEvents)

(***************************************************************************)
(* SpecTopDays : render_top_days_analysis of dashboard04.py as a function  *)
(* of the frame, over frames of more days than the table keeps.  The      *)
(* fetch loop does not run (no API key).                                   *)
(***************************************************************************)
ManyDays == 11

\* The incident counts tried: days 1..k, day d with d or d + 1 incidents,
\* so that neighbouring days can tie, at the cut as well.
Tallies ==
    UNION {{[d \in 1..k |-> d + extra[d]] : extra \in [1..k -> {0, 1}]} :
           k \in 0..ManyDays}

\* A frame with c[d] rows on day d; latitude tells the rows of a day apart.
TallyFrame(c) ==
    UNION {{[date |-> d, latitude |-> n, longitude |-> -74] : n \in 1..c[d]} :
           d \in DOMAIN c}

TopDaysInit ==
    /\ df \in {TallyFrame(c) : c \in Tallies}
    /\ api_key = NoKey
    /\ top_10_df = <<>>
    /\ pc = "loaded"
    /\ i = 0
    /\ weather_data = <<>>
    /\ failed_requests = 0
    /\ events = <<>>
    /\ correlation_df = None
    /\ outcome = "none"
    /\ cache = <<>>
    /\ last_call = None
    /\ returned = {}
    /\ FilterParked
    /\ LoadParked

\* main(), line 205: top_10_df = render_top_days_analysis(df).
RenderTopDaysAnalysis ==
    /\ pc = "loaded"
    /\ top_10_df' \in render_top_days_analysis(df)
    /\ pc' = "top_days"
    /\ UNCHANGED <<df, api_key, i, weather_data, failed_requests, events,
                   correlation_df, outcome, cache, last_call, returned>>
    /\ UNCHANGED <<fvars, lvars>>

TopDaysNext == RenderTopDaysAnalysis

SpecTopDays == TopDaysInit /\ [][TopDaysNext]_vars

TopDates == {top_10_df[a].date : a \in 1..Len(top_10_df)}

\* C21: the top-days table has at most HeadSize rows, holds every distinct
\* day when there are at most HeadSize of them, holds each date once with
\* its count, and no day in it has a lower count than a day left out.
C21_TopDaysBounded ==
    pc = "top_days" =>
        LET dc == daily_counts(df)
            n  == Len(top_10_df)
        IN  /\ n <= HeadSize
            /\ Cardinality(DOMAIN dc) <= HeadSize => TopDates = DOMAIN dc
            /\ TopDates \subseteq DOMAIN dc
            /\ \A a, b \in 1..n : a # b => top_10_df[a].date # top_10_df[b].date
            /\ \A a \in 1..n :
                  /\ top_10_df[a].incident_count = dc[top_10_df[a].date]
                  /\ \A x \in DOMAIN dc \ TopDates :
                        top_10_df[a].incident_count >= dc[x]

\* More days than the table keeps, and a tie across the cut.
C21_Witness ==
    /\ pc = "top_days"
    /\ Len(top_10_df) = HeadSize
    /\ \E x \in DOMAIN daily_counts(df) \ TopDates :
          daily_counts(df)[x] = top_10_df[HeadSize].incident_count

\* C22: the daily counts have exactly one entry per date present in the
\* frame, every count is at least 1 and the counts sum to the number of
\* rows; a top-days table that holds every day shows the same counts.
C22_DailyCountsPartition ==
    pc = "top_days" =>
        LET dc == daily_counts(df)
            n  == Len(top_10_df)
        IN  /\ DOMAIN dc = {r.date : r \in df}
            /\ \A d \in DOMAIN dc : dc[d] >= 1
            /\ SumOver(DOMAIN dc, dc) = Cardinality(df)
            /\ Cardinality(DOMAIN dc) <= HeadSize =>
                  SumOver(1..n, [a \in 1..n |-> top_10_df[a].incident_count])
                      = Cardinality(df)

\* Three rows over two days: two entries that sum to 3.
C22_Witness ==
    /\ pc = "top_days"
    /\ Cardinality(df) = 3
    /\ Len(top_10_df) = 2
    /\ top_10_df[1].incident_count + top_10_df[2].incident_count = 3

(***************************************************************************)
(* SpecFilter : the filter stage of four dashboard scripts, one script run *)
(* per step, over the frame the script's load_data returned.               *)
(*   dashboard00        module body, staged time/location/type filters     *)
(*   pages/dashboard01  render_dashboard over apply_filters                *)
(*   dashboard01        main, half-open timestamp window                   *)
(*   dashboard03        main, closed timestamp window                      *)
(* A rerun computes everything again from the frame and the widgets, so    *)
(* one run per behaviour covers every run.                                 *)
(* Timestamps are UTC milliseconds; a date is a day number.                *)
(***************************************************************************)
MsPerDay == 86400000

MsPerSecond == 1000

\* Times of day tried: midnight and the last half second of the day.
Offsets == {0, 86399500}

Times == {d * MsPerDay + o : d \in Days, o \in Offsets}

\* Series.dt.date and Timestamp.date()
dt_date(t) == t \div MsPerDay

\* pd.Timestamp(date).tz_localize("UTC")
Timestamp(d) == d * MsPerDay

\* The values of 'Specific Incident Type': load_data leaves the empty
\* string in every record (split_get_last below).
Types == {""}

Descriptions == {"Alarm", "Rescue"}

States == {"NJ", "NY"}

Locations == {"All", "Land Only", "Water Only"}

MaxRecords == 2

\* Largest frame of the geospatial scripts, whose rows vary in more columns.
MaxGeoRecords == 1

\* Rows of the frames of dashboard00 and pages/dashboard01.
DensityRecord ==
    [alarm_datetime : Times, on_land : BOOLEAN, specific_incident_type : Types,
     incident_description : {"-"}, state : States]

\* Rows of the frames of dashboard01 and dashboard03.
GeoRecord ==
    [alarm_datetime : Times, on_land : BOOLEAN, specific_incident_type : {"-"},
     incident_description : Descriptions, state : States]

RECURSIVE SetsUpTo(_, _)
SetsUpTo(U, n) ==
    IF n = 0 THEN {{}}
    ELSE LET P == SetsUpTo(U, n - 1)
         IN  P \cup {f \cup {x} : f \in P, x \in U}

DensityApps == {"dashboard00", "pages/dashboard01"}

GeoApps == {"dashboard01", "dashboard03"}

\* df['alarm_datetime'].min().date() and .max().date()
min_date(f) ==
    CHOOSE d \in {dt_date(r.alarm_datetime) : r \in f} :
        \A r \in f : d <= dt_date(r.alarm_datetime)

max_date(f) ==
    CHOOSE d \in {dt_date(r.alarm_datetime) : r \in f} :
        \A r \in f : d >= dt_date(r.alarm_datetime)

\* A date filter whose end bound is the latest alarm of its input, exclusive.
date_filter_BeforeLatest(f, start_date, end_date) ==
    {r \in f : /\ dt_date(r.alarm_datetime) >= start_date
               /\ dt_date(r.alarm_datetime) <= end_date
               /\ \E q \in f : q.alarm_datetime > r.alarm_datetime}

\* dashboard00.py 65-67, pages/dashboard01.py 65-68: comparison of dates.
date_filter(f, start_date, end_date) ==
    {r \in f : /\ dt_date(r.alarm_datetime) >= start_date
               /\ dt_date(r.alarm_datetime) <= end_date}

\* A location filter without the 'Water Only' branch.
location_filter_NoWaterBranch(f, location_type) ==
    IF location_type = "Land Only" THEN {r \in f : r.on_land} ELSE f

\* A location filter that ignores a mode no record of its input matches.
location_filter_FallbackAll(f, location_type) ==
    LET land == {r \in f : r.on_land}
        water == {r \in f : ~r.on_land}
    IN  IF location_type = "Land Only" /\ land # {} THEN land
        ELSE IF location_type = "Water Only" /\ water # {} THEN water
        ELSE f

\* dashboard00.py 68-73, pages/dashboard01.py 70-73, dashboard01.py 262-265
location_filter(f, location_type) ==
    IF location_type = "Land Only" THEN {r \in f : r.on_land}
    ELSE IF location_type = "Water Only" THEN {r \in f : ~r.on_land}
    ELSE f

\* dashboard00.py 82-86, pages/dashboard01.py 75-76
incident_filter(f, selected_incident) ==
    IF selected_incident # "All"
    THEN {r \in f : r.specific_incident_type = selected_incident}
    ELSE f

\* apply_filters without the location branch of lines 70-73.
apply_filters_NoLocation(f, start_date, end_date, location_type, selected_incident) ==
    incident_filter(date_filter(f, start_date, end_date), selected_incident)

\* pages/dashboard01.py 61-78
apply_filters(f, start_date, end_date, location_type, selected_incident) ==
    incident_filter(
        location_filter(date_filter(f, start_date, end_date), location_type),
        selected_incident)

\* dashboard01.py 251-257: start_ts <= t < end_ts, end_ts the next midnight.
in_window_01(t, start_date, end_date) ==
    /\ t >= Timestamp(start_date)
    /\ t < Timestamp(end_date) + MsPerDay

\* dashboard03.py 151-156: start_ts <= t <= end_ts, end_ts one second
\* before the next midnight.
in_window_03(t, start_date, end_date) ==
    /\ t >= Timestamp(start_date)
    /\ t <= Timestamp(end_date) + MsPerDay - MsPerSecond

\* The window test of the script that is running (line 203 of
\* dashboard_combine.py has the window of dashboard01.py).
in_window(script, t, start_date, end_date) ==
    IF script \in {"dashboard01", "dashboard_combine"}
    THEN in_window_01(t, start_date, end_date)
    ELSE in_window_03(t, start_date, end_date)

\* dashboard01.py 261-262, dashboard03.py 160-161
state_filter(f, selected_state) ==
    IF selected_state # "ALL STATES"
    THEN {r \in f : r.state = selected_state}
    ELSE f

\* DynamicFilters(frame, filters=['state', ...]).filter_df(): the rows of
\* the selected states, every row when nothing is selected.
dynamic_filters(f, geo_states) ==
    IF geo_states = {} THEN f ELSE {r \in f : r.state \in geo_states}

Criteria(range, loc, incident, descs, st, geo) ==
    [date_range |-> range, location_type |-> loc,
     selected_incident |-> incident, descriptions |-> descs,
     selected_state |-> st, geo_states |-> geo]

FilterInit ==
    /\ app \in DensityApps \cup GeoApps
    /\ frame \in (IF app \in DensityApps
                  THEN SetsUpTo(DensityRecord, MaxRecords)
                  ELSE SetsUpTo(GeoRecord, MaxGeoRecords)) \ {{}}
    /\ criteria = <<>>
    /\ time_filtered_df = {}
    /\ filtered_df = {}
    /\ ui = <<>>
    /\ WeatherParked
    /\ LoadParked

\* dashboard00.py 101-135, pages/dashboard01.py 135-170: metric, map, chart.
render_density(f) ==
    <<"metric">>
      \o (IF f # {} THEN <<"pydeck_chart">> ELSE <<"warning: no data">>)
      \o (IF f # {} THEN <<"bar_chart">> ELSE <<"write: no data">>)

\* dashboard00.py 59-60, pages/dashboard01.py 100-101
date_error(start_date, end_date) ==
    IF start_date > end_date THEN <<"error: end before start">> ELSE <<>>

\* dashboard00.py 52-135: the body of the script for a non-empty frame.
RunDashboard00 ==
    /\ app = "dashboard00"
    /\ ui = <<>>
    /\ \E start_date, end_date \in min_date(frame)..max_date(frame),
          location_type \in Locations :
          LET time_filtered == date_filter(frame, start_date, end_date)
              location_filtered_df ==
                  location_filter(time_filtered, location_type)
              incident_options ==
                  IF location_filtered_df # {}
                  THEN {"All"} \cup {r.specific_incident_type :
                                       r \in location_filtered_df}
                  ELSE {"All"}
          IN  \E selected_incident \in incident_options :
                LET incident_filtered_df ==
                        incident_filter(location_filtered_df, selected_incident)
                IN  \E geo_states \in SUBSET {r.state : r \in incident_filtered_df} :
                      /\ criteria' = Criteria(<<start_date, end_date>>,
                                              location_type, selected_incident,
                                              {}, "ALL STATES", geo_states)
                      /\ time_filtered_df' = time_filtered
                      /\ filtered_df' =
                            dynamic_filters(incident_filtered_df, geo_states)
                      /\ ui' = date_error(start_date, end_date)
                                 \o <<"time filter", "location filter">>
                                 \o (IF location_filtered_df # {}
                                     THEN <<"incident options", "incident filter">>
                                     ELSE <<"selectbox: no data">>)
                                 \o (IF incident_filtered_df # {}
                                     THEN <<"geographic filters">> ELSE <<>>)
                                 \o render_density(
                                      dynamic_filters(incident_filtered_df,
                                                      geo_states))
    /\ UNCHANGED <<app, frame>>
    /\ UNCHANGED <<wvars, lvars>>

\* pages/dashboard01.py 81-170: render_dashboard for a non-empty frame.
RunPagesDashboard01 ==
    /\ app = "pages/dashboard01"
    /\ ui = <<>>
    /\ \E start_date, end_date \in min_date(frame)..max_date(frame),
          location_type \in Locations :
          LET base_filtered_df ==
                  apply_filters(frame, start_date, end_date, location_type, "All")
              incident_options ==
                  IF base_filtered_df # {}
                  THEN {"All"} \cup {r.specific_incident_type :
                                       r \in base_filtered_df}
                  ELSE {"All"}
          IN  \E selected_incident \in incident_options :
                LET incident_filtered_df ==
                        IF base_filtered_df # {}
                        THEN apply_filters(frame, start_date, end_date,
                                           location_type, selected_incident)
                        ELSE base_filtered_df
                IN  \E geo_states \in SUBSET {r.state : r \in incident_filtered_df} :
                      /\ criteria' = Criteria(<<start_date, end_date>>,
                                              location_type, selected_incident,
                                              {}, "ALL STATES", geo_states)
                      /\ time_filtered_df' =
                            date_filter(frame, start_date, end_date)
                      /\ filtered_df' =
                            dynamic_filters(incident_filtered_df, geo_states)
                      /\ ui' = date_error(start_date, end_date)
                                 \o <<"apply_filters">>
                                 \o (IF base_filtered_df # {}
                                     THEN <<"incident options", "apply_filters">>
                                     ELSE <<"selectbox: no data">>)
                                 \o (IF incident_filtered_df # {}
                                     THEN <<"geographic filters">> ELSE <<>>)
                                 \o render_density(
                                      dynamic_filters(incident_filtered_df,
                                                      geo_states))
    /\ UNCHANGED <<app, frame>>
    /\ UNCHANGED <<wvars, lvars>>

\* st.date_input with a pair as value: one date while the user is picking,
\* else a pair in order, both within [min_value, max_value].
DateRanges(f) ==
    {<<d>> : d \in min_date(f)..max_date(f)}
      \cup {<<a, b>> : a, b \in min_date(f)..max_date(f)}

\* dashboard01.py 246-276 and dashboard03.py 129-179: sidebar, then filters
\* and rendering, with the window test of the script.
RunGeo(script) ==
    /\ ui = <<>>
    /\ \E date_range \in {r \in DateRanges(frame) :
                            Len(r) = 2 => r[1] <= r[2]},
          descriptions \in SUBSET {r.incident_description : r \in frame},
          selected_state \in {"ALL STATES"} \cup {r.state : r \in frame},
          location_type \in Locations :
          /\ criteria' = Criteria(date_range, location_type, "All",
                                  descriptions, selected_state, {})
          /\ IF Len(date_range) # 2
             THEN /\ ui' = <<"warning: select a valid date range">>
                  /\ time_filtered_df' = {}
                  /\ filtered_df' = {}
             ELSE LET in_range ==
                          {r \in frame : in_window(script, r.alarm_datetime,
                                                   date_range[1], date_range[2])}
                      masked ==
                          {r \in in_range : r.incident_description \in descriptions}
                      result ==
                          location_filter(state_filter(masked, selected_state),
                                          location_type)
                  IN  /\ time_filtered_df' = in_range
                      /\ filtered_df' = result
                      /\ ui' = <<"window filter", "state filter",
                                 "location filter", "map", "summary", "charts">>
    /\ UNCHANGED <<app, frame>>
    /\ UNCHANGED <<wvars, lvars>>

\* dashboard01.py 246-276
RunDashboard01 ==
    /\ app = "dashboard01"
    /\ RunGeo("dashboard01")

\* dashboard03.py 129-179
RunDashboard03 ==
    /\ app = "dashboard03"
    /\ RunGeo("dashboard03")

FilterNext ==
    RunDashboard00 \/ RunPagesDashboard01 \/ RunDashboard01 \/ RunDashboard03

SpecFilter == FilterInit /\ [][FilterNext]_vars

(***************************************************************************)
(* Properties of the filter stage.                                         *)
(***************************************************************************)
FilterRan == ui # <<>>

\* C8: with a complete date range start <= end, the date-range predicate
\* keeps exactly the records whose alarm timestamp, truncated to its day,
\* lies in [start, end]: every time of day on the end date is kept, the
\* following day is not.
C8_DateRangeInclusiveByDay ==
    (FilterRan /\ Len(criteria.date_range) = 2
       /\ criteria.date_range[1] <= criteria.date_range[2])
    => time_filtered_df =
         {r \in frame : /\ criteria.date_range[1] <= dt_date(r.alarm_datetime)
                        /\ dt_date(r.alarm_datetime) <= criteria.date_range[2]}

\* C9: when the chosen start date is after the end date, the run reports
\* the error and does nothing else: no filter, no option list, no
\* aggregate, no rendering.
C9_InvertedRangeRejected ==
    (FilterRan /\ Len(criteria.date_range) = 2
       /\ criteria.date_range[1] > criteria.date_range[2])
    => ui = <<"error: end before start">>

\* apply_filters with the criteria of the run.
ApplyCriteria(f) ==
    apply_filters(f, criteria.date_range[1], criteria.date_range[2],
                  criteria.location_type, criteria.selected_incident)

\* pages/dashboard01 has run and no geographic filter is selected:
\* filtered_df is the result of apply_filters.
ApplyFiltersRan ==
    FilterRan /\ app = "pages/dashboard01" /\ criteria.geo_states = {}

\* C16: apply_filters is idempotent: applying the criteria of the run to
\* the result of the run returns that result.
C16_ApplyFiltersIdempotent ==
    ApplyFiltersRan
    => /\ filtered_df = ApplyCriteria(frame)
       /\ ApplyCriteria(filtered_df) = filtered_df

\* The criteria removed a record and kept one.
C16_Witness ==
    ApplyFiltersRan /\ filtered_df # {} /\ filtered_df # frame

\* One predicate stage of the run, by name, with the criteria of the run.
Stage(name, f) ==
    CASE name = "date" ->
           date_filter(f, criteria.date_range[1], criteria.date_range[2])
      [] name = "location" -> location_filter(f, criteria.location_type)
      [] name = "incident" -> incident_filter(f, criteria.selected_incident)
      [] name = "window" ->
           {r \in f : in_window(app, r.alarm_datetime,
                                criteria.date_range[1], criteria.date_range[2])}
      [] name = "description" ->
           {r \in f : r.incident_description \in criteria.descriptions}
      [] name = "state" -> state_filter(f, criteria.selected_state)

RECURSIVE ApplyStages(_, _)
ApplyStages(f, names) ==
    IF names = <<>> THEN f
    ELSE ApplyStages(Stage(Head(names), f), Tail(names))

Orders(S) ==
    {p \in [1..Cardinality(S) -> S] :
        \A a, b \in 1..Cardinality(S) : a # b => p[a] # p[b]}

\* A geospatial script has run to its filters.
GeoFiltersRan ==
    FilterRan /\ app \in GeoApps /\ Len(criteria.date_range) = 2

\* C17: the filtered set does not depend on the order of the predicates:
\* every permutation of the stages of apply_filters, and of the stages of
\* the geospatial scripts, yields the set the run produced.
C17_OrderIndependent ==
    /\ ApplyFiltersRan =>
          \A p \in Orders({"date", "location", "incident"}) :
              ApplyStages(frame, p) = filtered_df
    /\ GeoFiltersRan =>
          \A p \in Orders({"window", "description", "state", "location"}) :
              ApplyStages(frame, p) = filtered_df

\* The date stage and the location stage each remove records, and not the
\* same ones.
C17_Witness ==
    /\ ApplyFiltersRan
    /\ Stage("date", frame) # frame
    /\ Stage("location", frame) # frame
    /\ Stage("date", frame) # Stage("location", frame)

\* A density script has run with no selection downstream of the location
\* type: filtered_df is the result of the location stage on time_filtered_df.
LocationStageRan ==
    /\ FilterRan /\ app \in DensityApps
    /\ criteria.selected_incident = "All" /\ criteria.geo_states = {}

\* C18: the location predicate keeps exactly the records on land in mode
\* LAND, exactly the records not on land in mode WATER, and everything in
\* mode ALL; the LAND and WATER results are disjoint and their union is the
\* ALL result.
C18_LocationPredicate ==
    LocationStageRan
    => /\ criteria.location_type = "Land Only" =>
              filtered_df = {r \in time_filtered_df : r.on_land}
       /\ criteria.location_type = "Water Only" =>
              filtered_df = {r \in time_filtered_df : ~r.on_land}
       /\ criteria.location_type = "All" => filtered_df = time_filtered_df
       /\ location_filter(time_filtered_df, "Land Only")
             \cap location_filter(time_filtered_df, "Water Only") = {}
       /\ location_filter(time_filtered_df, "Land Only")
             \cup location_filter(time_filtered_df, "Water Only")
             = location_filter(time_filtered_df, "All")

\* 'Water Only' over records on land and records at sea.
C18_Witness ==
    /\ LocationStageRan
    /\ criteria.location_type = "Water Only"
    /\ \E r \in time_filtered_df : r.on_land
    /\ \E r \in time_filtered_df : ~r.on_land

\* C19: an absent or ALL selector is the identity: a geospatial run with
\* no description selected, state 'ALL STATES' and location 'All' keeps
\* every record of the date range, and a density run with incident 'All',
\* location 'All' and no geographic selection does so too.
C19_AbsentSelectorIsIdentity ==
    /\ (GeoFiltersRan /\ criteria.descriptions = {}
           /\ criteria.selected_state = "ALL STATES"
           /\ criteria.location_type = "All")
       => filtered_df = time_filtered_df
    /\ (LocationStageRan /\ criteria.location_type = "All")
       => filtered_df = time_filtered_df

\* C28: the three implementations of the date-range predicate select the
\* same records of the frame for the chosen range: the day-truncated
\* comparison of apply_filters, the half-open window of dashboard01.py and
\* the closed window of dashboard03.py, also for a timestamp with a
\* fraction of a second in the last second of the end date.
C28_DateRangesAgree ==
    (FilterRan /\ Len(criteria.date_range) = 2)
    => LET start_date == criteria.date_range[1]
           end_date == criteria.date_range[2]
           half_open == {r \in frame : in_window_01(r.alarm_datetime,
                                                     start_date, end_date)}
           closed == {r \in frame : in_window_03(r.alarm_datetime,
                                                  start_date, end_date)}
       IN  /\ date_filter(frame, start_date, end_date) = half_open
           /\ half_open = closed

\* C29: before the geographic selection, the staged pipeline of
\* dashboard00.py returns the records apply_filters returns for the same
\* criteria; apply_filters with a specific type T returns the records of
\* type T of its result for 'All', so a type offered from the 'All' result
\* has a record in the re-filtered result.
C29_StagedEqualsApplyFilters ==
    (FilterRan /\ app \in DensityApps /\ criteria.geo_states = {})
    => LET start_date == criteria.date_range[1]
           end_date == criteria.date_range[2]
           base_filtered_df ==
               apply_filters(frame, start_date, end_date,
                             criteria.location_type, "All")
           refiltered ==
               apply_filters(frame, start_date, end_date,
                             criteria.location_type,
                             criteria.selected_incident)
       IN  /\ filtered_df = refiltered
           /\ refiltered =
                 {r \in base_filtered_df :
                    \/ criteria.selected_incident = "All"
                    \/ r.specific_incident_type = criteria.selected_incident}
           /\ criteria.selected_incident # "All"
              => \E r \in refiltered :
                    r.specific_incident_type = criteria.selected_incident

\* The staged pipeline of dashboard00.py has run with a specific type and a
\* location mode that keeps some records of the range and drops others.
C29_Witness ==
    /\ FilterRan
    /\ app = "dashboard00"
    /\ criteria.geo_states = {}
    /\ criteria.selected_incident # "All"
    /\ criteria.location_type # "All"
    /\ filtered_df # {}
    /\ filtered_df # time_filtered_df

(***************************************************************************)
(* SpecLoad : the normalizers.  One step reads the rows of the CSV file    *)
(* and runs one of                                                         *)
(*   dashboard00.load_data, pages/dashboard01.load_data,                   *)
(*   dashboard01.load_data, pages/dashboard02.load_data,                   *)
(*   dashboard_combine.load_all_data                                       *)
(* with the handling of its caller.  A raw cell is null (empty field),     *)
(* text (not a number, not a timestamp) or a number; a string is a         *)
(* sequence of characters.  Of the string columns that a loader treats     *)
(* alike (state, city, ...) the model carries state.                       *)
(***************************************************************************)
Null == [tag |-> "null", v |-> 0]

Text == [tag |-> "text", v |-> 0]

Num(n) == [tag |-> "num", v |-> n]

MaxRaw == 2

IncidentPaths == {<<"A", "|", "|", "B">>}

Unknown == <<"U", "n", "k", "n", "o", "w", "n">>

\* globe.is_land raises ValueError on a latitude above 90 degrees.
MaxLatitude == 90

\* A latitude no place on earth has.
BadLatitude == 91

MsPerMinute == 60000

\* Rows tried against the loaders of the density and category views:
\* the two columns of the geospatial views are well-formed.
RawRow ==
    [alarm_datetime : {Null, Text, Num(MsPerDay)},
     last_unit_cleared_datetime : {Num(MsPerDay + MsPerMinute)},
     response_time_minutes : {Num(5)},
     latitude : {Null, Text} \cup {Num(l) : l \in Lats \cup {BadLatitude}},
     longitude : {Null} \cup {Num(l) : l \in Lons},
     state : {None, Some("ny")},
     incident_type : {None} \cup {Some(p) : p \in IncidentPaths},
     incident_category : {Some("Fire")},
     incident_description : {Some("Alarm")},
     animals_rescued : {Num(0)}]

\* Rows tried against the loaders of the geospatial views: units cleared
\* at the alarm or a minute later, response time zero or positive.
GeoRawRow ==
    [alarm_datetime : {Text, Num(MsPerDay)},
     last_unit_cleared_datetime :
         {Null, Num(MsPerDay), Num(MsPerDay + MsPerMinute)},
     response_time_minutes : {Null, Num(0), Num(5)},
     latitude : {Null} \cup {Num(l) : l \in Lats},
     longitude : {Num(l) : l \in Lons},
     state : {Some("ny")},
     incident_type : {Some(p) : p \in IncidentPaths},
     incident_category : {Some("Fire")},
     incident_description : {Some("Alarm")},
     animals_rescued : {Num(0)}]

\* Rows tried against the category views: alarm on one of two days or
\* unparseable, a category or none, the animals rescued missing, negative,
\* zero or positive; the other columns are well-formed.
CategoryRawRow ==
    [alarm_datetime : {Text, Num(MsPerDay), Num(2 * MsPerDay)},
     last_unit_cleared_datetime : {Num(2 * MsPerDay + MsPerMinute)},
     response_time_minutes : {Num(5)},
     latitude : {Num(40)},
     longitude : {Num(-74)},
     state : {Some("ny")},
     incident_type : {Some(p) : p \in IncidentPaths},
     incident_category : {None, Some("Fire"), Some("EMS")},
     incident_description : {Some("Alarm")},
     animals_rescued : {Null, Num(-1), Num(0), Num(2)}]

RECURSIVE SeqsUpTo(_, _)
SeqsUpTo(U, n) ==
    IF n = 0 THEN {<<>>}
    ELSE LET P == SeqsUpTo(U, n - 1)
         IN  P \cup {Append(q, x) : q \in P, x \in U}

\* pd.to_datetime(errors='coerce') and pd.to_numeric(errors='coerce')
coerce(cell) == IF cell.tag = "num" THEN cell ELSE Null

\* pd.to_numeric(errors='coerce').fillna(0).astype(int), the integer itself
to_int(cell) == IF coerce(cell) = Null THEN 0 ELSE coerce(cell).v

\* Series.fillna('Unknown')
fillna(o, value) == IF IsNone(o) THEN Some(value) ELSE o

\* re.split of the pattern '||': an alternation of empty branches, which
\* matches the empty string at every position of the subject.
re_split(chars) == <<"">> \o chars \o <<"">>

\* Series.str.split('||').str.get(-1)
split_get_last(o) ==
    IF IsNone(o) THEN None
    ELSE LET parts == re_split(Val(o)) IN Some(parts[Len(parts)])

\* Series.str.upper()
upper(o) ==
    IF IsNone(o) THEN None
    ELSE Some(CASE Val(o) = "ny" -> "NY"
                [] Val(o) = "Unknown" -> "UNKNOWN"
                [] OTHER -> Val(o))

\* globe.is_land on one coordinate pair: the land mask at the points tried.
is_land(lat, lon) == lat = 43

Loaded(status, rows) == [status |-> status, rows |-> rows]

\* What a load function raises before it has a frame: pd.read_csv raises
\* FileNotFoundError for no file and (for one) EmptyDataError for a file
\* without a header; the first use of a column the header lacks raises
\* KeyError.  None when the function gets through.
load_exception(src, columns) ==
    IF src.file = "not_found" THEN Some("FileNotFoundError")
    ELSE IF src.file = "unreadable" THEN Some("EmptyDataError")
    ELSE IF ~IsNone(src.missing) /\ Val(src.missing) \in columns
    THEN Some("KeyError")
    ELSE None

\* The columns load_data of dashboard01.py and of dashboard03.py reads.
GeoColumns ==
    {"alarm_datetime", "last_unit_cleared_datetime", "response_time_minutes",
     "latitude", "longitude", "incident_description", "city", "state",
     "units_responded", "patient_status", "fire_suppression_effectiveness"}

\* The columns load_all_data reads.
AllColumns ==
    {"alarm_datetime", "last_unit_cleared_datetime", "latitude", "longitude",
     "response_time_minutes", "units_responded", "animals_rescued",
     "patient_status", "fire_suppression_effectiveness", "incident_category",
     "incident_description", "city", "state", "incident_type"}

LoadInit ==
    /\ raw \in SeqsUpTo(RawRow, MaxRaw) \cup SeqsUpTo(GeoRawRow, MaxRaw)
    /\ source = OkSource
    /\ loader = ""
    /\ loaded = Loaded("none", <<>>)
    /\ load_ui = <<>>
    /\ WeatherParked
    /\ FilterParked

\* dashboard00.py 16-43 and its caller, 46-50 and 136-139.
LoadDashboard00 ==
    /\ loaded.status = "none"
    /\ loader' = "dashboard00"
    /\ LET parsed == [k \in 1..Len(raw) |->
                        [raw[k] EXCEPT !.alarm_datetime = coerce(@)]]
           IsComplete(r) ==
               /\ r.alarm_datetime # Null /\ r.latitude # Null
               /\ r.longitude # Null
               /\ ~IsNone(r.state) /\ ~IsNone(r.incident_type)
           kept == SelectSeq(parsed, IsComplete)
           parsing_errors == Len(raw) - Len(kept)
           warning == IF parsing_errors > 0
                      THEN <<Ev("warning: removed rows", parsing_errors, 0)>>
                      ELSE <<>>
           \* one text cell makes read_csv keep the column as strings
           \* and a latitude above 90 makes is_land raise
           is_land_raises ==
               /\ kept # <<>>
               /\ \/ \E k \in 1..Len(raw) : raw[k].latitude = Text
                  \/ \E k \in 1..Len(kept) : kept[k].latitude.v > MaxLatitude
           result ==
               [k \in 1..Len(kept) |->
                  [alarm_datetime |-> kept[k].alarm_datetime,
                   latitude |-> kept[k].latitude,
                   longitude |-> kept[k].longitude,
                   state |-> kept[k].state,
                   incident_type |-> kept[k].incident_type,
                   on_land |-> is_land(kept[k].latitude.v, kept[k].longitude.v),
                   specific_incident_type |->
                       split_get_last(kept[k].incident_type)]]
       IN  IF is_land_raises
           THEN /\ loaded' = Loaded("exception", <<>>)
                /\ load_ui' = warning \o <<Ev("error: data processing", 0, 0)>>
           ELSE /\ loaded' = Loaded("frame", result)
                /\ load_ui' = warning
                     \o (IF result = <<>>
                         THEN <<Ev("error: no valid data", 0, 0)>> ELSE <<>>)
    /\ UNCHANGED <<raw, source>>
    /\ UNCHANGED <<wvars, fvars>>

\* pages/dashboard01.py 16-58 and its caller, 173-180.
LoadPagesDashboard01 ==
    /\ loaded.status = "none"
    /\ loader' = "pages/dashboard01"
    /\ LET parsed == [k \in 1..Len(raw) |->
                        [raw[k] EXCEPT !.alarm_datetime = coerce(@)]]
           IsComplete(r) ==
               /\ r.alarm_datetime # Null /\ r.latitude # Null
               /\ r.longitude # Null
               /\ ~IsNone(r.state) /\ ~IsNone(r.incident_type)
           kept == SelectSeq(parsed, IsComplete)
           parsing_errors == Len(raw) - Len(kept)
           warning == IF parsing_errors > 0
                      THEN <<Ev("warning: removed rows", parsing_errors, 0)>>
                      ELSE <<>>
           is_land_raises ==
               /\ kept # <<>>
               /\ \/ \E k \in 1..Len(raw) : raw[k].latitude = Text
                  \/ \E k \in 1..Len(kept) : kept[k].latitude.v > MaxLatitude
           result ==
               [k \in 1..Len(kept) |->
                  [alarm_datetime |-> kept[k].alarm_datetime,
                   latitude |-> kept[k].latitude,
                   longitude |-> kept[k].longitude,
                   state |-> upper(kept[k].state),
                   incident_type |-> kept[k].incident_type,
                   on_land |-> is_land(kept[k].latitude.v, kept[k].longitude.v),
                   specific_incident_type |->
                       split_get_last(kept[k].incident_type)]]
       IN  IF is_land_raises
           THEN /\ loaded' = Loaded("exception", <<>>)
                /\ load_ui' = warning \o <<Ev("error: unexpected", 0, 0)>>
           ELSE /\ loaded' = Loaded("frame", result)
                /\ load_ui' = warning
                     \o (IF result = <<>>
                         THEN <<Ev("error: no valid data", 0, 0)>> ELSE <<>>)
    /\ UNCHANGED <<raw, source>>
    /\ UNCHANGED <<wvars, fvars>>

\* dashboard01.py 78-114 and its caller, 240-246, which handles only
\* FileNotFoundError and KeyError.
LoadDashboard01 ==
    /\ loaded.status = "none"
    /\ loader' = "dashboard01"
    /\ LET exc == load_exception(source, GeoColumns)
           HasRequired(r) ==
               /\ r.alarm_datetime # Null
               /\ r.last_unit_cleared_datetime # Null
               /\ r.response_time_minutes # Null
               /\ r.latitude # Null /\ r.longitude # Null
               /\ ~IsNone(r.incident_description)
               /\ ~IsNone(r.state)
           present == SelectSeq(raw, HasRequired)
           converted ==
               [k \in 1..Len(present) |->
                  [present[k] EXCEPT
                      !.alarm_datetime = coerce(@),
                      !.last_unit_cleared_datetime = coerce(@),
                      !.latitude = coerce(@),
                      !.longitude = coerce(@),
                      !.response_time_minutes = coerce(@)]]
           Converted(r) ==
               /\ r.alarm_datetime # Null
               /\ r.last_unit_cleared_datetime # Null
               /\ r.latitude # Null /\ r.longitude # Null
               /\ r.response_time_minutes # Null
           mission_duration(r) ==
               (r.last_unit_cleared_datetime.v - r.alarm_datetime.v)
                   \div MsPerMinute
           Positive(r) ==
               mission_duration(r) > 0 /\ r.response_time_minutes.v > 0
           kept == SelectSeq(SelectSeq(converted, Converted), Positive)
           is_land_raises ==
               \E k \in 1..Len(kept) : kept[k].latitude.v > MaxLatitude
           result ==
               [k \in 1..Len(kept) |->
                  [alarm_datetime |-> kept[k].alarm_datetime,
                   last_unit_cleared_datetime |->
                       kept[k].last_unit_cleared_datetime,
                   response_time_minutes |-> kept[k].response_time_minutes,
                   latitude |-> kept[k].latitude,
                   longitude |-> kept[k].longitude,
                   incident_description |-> kept[k].incident_description,
                   state |-> kept[k].state,
                   mission_duration |-> mission_duration(kept[k]),
                   on_land |-> is_land(kept[k].latitude.v, kept[k].longitude.v)]]
       IN  IF ~IsNone(exc)
           THEN /\ loaded' = Loaded("exception", <<>>)
                /\ load_ui' =
                     IF Val(exc) \in {"FileNotFoundError", "KeyError"}
                     THEN <<Ev("error: loading data", 0, 0)>>
                     ELSE <<Ev("exception: EmptyDataError", 0, 0)>>
           ELSE IF is_land_raises
           THEN /\ loaded' = Loaded("exception", <<>>)
                /\ load_ui' = <<Ev("exception: ValueError", 0, 0)>>
           ELSE /\ loaded' = Loaded("frame", result)
                /\ load_ui' = <<>>
    /\ UNCHANGED <<raw, source>>
    /\ UNCHANGED <<wvars, fvars>>

\* pages/dashboard02.py 57-89 and its caller, 162-166.
LoadPagesDashboard02 ==
    /\ loaded.status = "none"
    /\ loader' = "pages/dashboard02"
    /\ LET parsed == [k \in 1..Len(raw) |->
                        [raw[k] EXCEPT !.alarm_datetime = coerce(@)]]
           HasAlarm(r) == r.alarm_datetime # Null
           kept == SelectSeq(parsed, HasAlarm)
           rows_removed == Len(raw) - Len(kept)
           result ==
               [k \in 1..Len(kept) |->
                  [alarm_datetime |-> kept[k].alarm_datetime,
                   latitude |-> kept[k].latitude,
                   longitude |-> kept[k].longitude,
                   state |-> upper(fillna(kept[k].state, "Unknown")),
                   incident_category |->
                       fillna(kept[k].incident_category, "Unknown"),
                   animals_rescued |-> to_int(kept[k].animals_rescued),
                   incident_type |-> fillna(kept[k].incident_type, Unknown),
                   specific_incident_type |->
                       split_get_last(fillna(kept[k].incident_type, Unknown))]]
       IN  /\ loaded' = Loaded("frame", result)
           /\ load_ui' =
                (IF rows_removed > 0
                 THEN <<Ev("warning: removed rows", rows_removed, 0)>>
                 ELSE <<>>)
                \o (IF result = <<>>
                    THEN <<Ev("error: no valid data", 0, 0)>> ELSE <<>>)
    /\ UNCHANGED <<raw, source>>
    /\ UNCHANGED <<wvars, fvars>>

\* dashboard_combine.py 50-82 and its caller, 278-282.  When is_land raises
\* (a latitude above 90) line 72 sets the flag of every row.  The land mask
\* is indexed by the coordinates: on a null coordinate the lookup either
\* raises as well, or yields some flag.
LoadAllData ==
    /\ loaded.status = "none"
    /\ loader' = "dashboard_combine"
    /\ LET exc == load_exception(source, AllColumns)
           converted ==
               [k \in 1..Len(raw) |->
                  [raw[k] EXCEPT !.alarm_datetime = coerce(@),
                                 !.last_unit_cleared_datetime = coerce(@),
                                 !.response_time_minutes = coerce(@),
                                 !.latitude = coerce(@),
                                 !.longitude = coerce(@),
                                 !.animals_rescued = coerce(@)]]
           HasCoordinates(r) == r.latitude # Null /\ r.longitude # Null
           OutOfRange(r) ==
               r.latitude # Null /\ r.latitude.v > MaxLatitude
           Flags ==
               IF \E k \in 1..Len(converted) : OutOfRange(converted[k])
               THEN {[k \in 1..Len(converted) |-> TRUE]}
               ELSE IF \A k \in 1..Len(converted) : HasCoordinates(converted[k])
               THEN {[k \in 1..Len(converted) |->
                        is_land(converted[k].latitude.v,
                                converted[k].longitude.v)]}
               ELSE {[k \in 1..Len(converted) |-> TRUE]}
                      \cup {fl \in [1..Len(converted) -> BOOLEAN] :
                              \A k \in 1..Len(converted) :
                                  HasCoordinates(converted[k]) =>
                                      fl[k] = is_land(converted[k].latitude.v,
                                                      converted[k].longitude.v)}
           mission_duration(r) ==
               IF r.alarm_datetime = Null \/ r.last_unit_cleared_datetime = Null
               THEN None
               ELSE Some((r.last_unit_cleared_datetime.v - r.alarm_datetime.v)
                            \div MsPerMinute)
       IN  IF ~IsNone(exc)
           THEN /\ loaded' = Loaded("exception", <<>>)
                /\ load_ui' = <<Ev("error: critical error loading data", 0, 0)>>
           ELSE
           \E on_land \in Flags :
             /\ loaded' = Loaded("frame",
                  [k \in 1..Len(converted) |->
                     [alarm_datetime |-> converted[k].alarm_datetime,
                      last_unit_cleared_datetime |->
                          converted[k].last_unit_cleared_datetime,
                      response_time_minutes |->
                          converted[k].response_time_minutes,
                      mission_duration |-> mission_duration(converted[k]),
                      incident_description |->
                          fillna(converted[k].incident_description, "Unknown"),
                      latitude |-> converted[k].latitude,
                      longitude |-> converted[k].longitude,
                      date |-> IF converted[k].alarm_datetime = Null THEN None
                               ELSE Some(dt_date(converted[k].alarm_datetime.v)),
                      state |-> fillna(converted[k].state, "Unknown"),
                      incident_category |->
                          fillna(converted[k].incident_category, "Unknown"),
                      animals_rescued |-> converted[k].animals_rescued,
                      incident_type |->
                          fillna(converted[k].incident_type, Unknown),
                      on_land |-> on_land[k],
                      specific_incident_type |->
                          split_get_last(
                              fillna(converted[k].incident_type, Unknown))]])
             /\ load_ui' = <<>>
    /\ UNCHANGED <<raw, source>>
    /\ UNCHANGED <<wvars, fvars>>

\* st.date_input with a pair as value and bounds lo, hi: one date while
\* the user is picking, else a pair in order.
date_input_range(lo, hi) ==
    {<<d>> : d \in lo..hi}
      \cup {r \in (lo..hi) \X (lo..hi) : r[1] <= r[2]}

\* The dates of the rows whose alarm_datetime is not NaT: min() and max()
\* skip NaT.
alarm_dates(rows) ==
    {dt_date(rows[k].alarm_datetime.v) :
        k \in {j \in 1..Len(rows) : rows[j].alarm_datetime # Null}}

\* dashboard_combine.py 104: a comparison with NaT is false.
tab1_time_filter(rows, start_date, end_date) ==
    LET InRange(r) ==
            /\ r.alarm_datetime # Null
            /\ dt_date(r.alarm_datetime.v) >= start_date
            /\ dt_date(r.alarm_datetime.v) <= end_date
    IN  SelectSeq(rows, InRange)

\* dashboard_combine.py 105-106
tab1_location_filter(rows, location_type) ==
    LET Land(r) == r.on_land
        Water(r) == ~r.on_land
    IN  IF location_type = "Land Only" THEN SelectSeq(rows, Land)
        ELSE IF location_type = "Water Only" THEN SelectSeq(rows, Water)
        ELSE rows

\* dashboard_combine.py 107
tab1_incident_filter(rows, selected_incident) ==
    LET Selected(r) == r.specific_incident_type = Some(selected_incident)
    IN  IF selected_incident # "All" THEN SelectSeq(rows, Selected) ELSE rows

\* DynamicFilters(rows, filters=['state', 'city']).filter_df()
tab1_dynamic_filters(rows, geo_states) ==
    LET Chosen(r) == Val(r.state) \in geo_states
    IN  IF geo_states = {} THEN rows ELSE SelectSeq(rows, Chosen)

\* dashboard_combine.py 87-135 under main, 284-287: the density tab over the
\* frame of load_all_data.  An exception raised in the tab ends the run.
\* A rerun computes everything again from the frame and the widgets, so
\* one run per behaviour covers every run.
RenderDensityMapDashboard ==
    /\ loader = "dashboard_combine"
    /\ loaded.status = "frame"
    /\ ui = <<>>
    /\ LET rows == loaded.rows
           dates == alarm_dates(rows)
           Raised(what) ==
               /\ criteria' = <<>>
               /\ time_filtered_df' = <<>>
               /\ filtered_df' = <<>>
               /\ ui' = <<what>>
       IN  IF dates = {}
           THEN Raised("exception: NaT has no date")
           ELSE LET min_date_1 == CHOOSE d \in dates : \A e \in dates : d <= e
                    max_date_1 == CHOOSE d \in dates : \A e \in dates : d >= e
                    incident_types ==
                        {"All"} \cup {Val(rows[k].specific_incident_type) :
                                        k \in 1..Len(rows)}
                IN  \E date_range \in date_input_range(min_date_1, max_date_1),
                       location_type \in Locations,
                       selected_incident \in incident_types :
                      IF Len(date_range) # 2
                      THEN Raised("exception: not enough values to unpack")
                      ELSE LET base ==
                                   tab1_incident_filter(
                                     tab1_location_filter(
                                       tab1_time_filter(rows, date_range[1],
                                                        date_range[2]),
                                       location_type),
                                     selected_incident)
                           IN  \E geo_states \in
                                    SUBSET {Val(base[k].state) : k \in 1..Len(base)} :
                                 /\ criteria' =
                                      [date_range |-> date_range,
                                       location_type |-> location_type,
                                       incident_types |-> incident_types,
                                       selected_incident |-> selected_incident,
                                       geo_states |-> geo_states]
                                 /\ time_filtered_df' = base
                                 /\ filtered_df' =
                                      tab1_dynamic_filters(base, geo_states)
                                 /\ ui' = <<"base filters">>
                                      \o (IF base # <<>>
                                          THEN <<"geographic filters">> ELSE <<>>)
                                      \o <<"metric">>
                                      \o (IF tab1_dynamic_filters(base, geo_states) # <<>>
                                          THEN <<"pydeck_chart", "bar_chart">>
                                          ELSE <<"warning: no data">>)
    /\ UNCHANGED <<app, frame>>
    /\ UNCHANGED <<wvars, lvars>>

LoadNext ==
    \/ LoadDashboard00 \/ LoadPagesDashboard01 \/ LoadDashboard01
    \/ LoadPagesDashboard02
    \/ LoadAllData
    \/ RenderDensityMapDashboard

SpecLoad == LoadInit /\ [][LoadNext]_vars

(***************************************************************************)
(* Properties of the normalizers.                                          *)
(***************************************************************************)
\* C10: every record of the frame a loader returns has a non-null
\* alarm_datetime, latitude and longitude.
C10_LoadedRecordsNonNull ==
    loaded.status = "frame" =>
        \A k \in 1..Len(loaded.rows) :
            /\ loaded.rows[k].alarm_datetime # Null
            /\ loaded.rows[k].latitude # Null
            /\ loaded.rows[k].longitude # Null

\* The density tab has rendered the frame of load_all_data.
DensityTabRan == loader = "dashboard_combine" /\ ui # <<>> /\ criteria # <<>>

\* C11: filtering a normalized record set by the date range
\* [minDate, maxDate] computed from that set, with every other selector at
\* ALL or absent, returns the whole set: no record is lost.
C11_FullRangeKeepsAll ==
    (DensityTabRan
       /\ criteria.date_range =
            <<CHOOSE d \in alarm_dates(loaded.rows) :
                  \A e \in alarm_dates(loaded.rows) : d <= e,
              CHOOSE d \in alarm_dates(loaded.rows) :
                  \A e \in alarm_dates(loaded.rows) : d >= e>>
       /\ criteria.location_type = "All"
       /\ criteria.selected_incident = "All"
       /\ criteria.geo_states = {})
    => filtered_df = loaded.rows

\* The row has a position on earth.
ValidCoordinates(r) ==
    /\ r.latitude.tag = "num" /\ r.latitude.v <= MaxLatitude
    /\ r.longitude.tag = "num"

\* C12: after normalization the on_land of every record with valid
\* coordinates is isLand of that record's own coordinates, whatever the
\* other rows of the file hold.
C12_OnLandOfOwnCoordinates ==
    (loaded.status = "frame" /\ loader \in {"dashboard00", "dashboard_combine"})
    => \A k \in 1..Len(loaded.rows) :
          ValidCoordinates(loaded.rows[k]) =>
              loaded.rows[k].on_land =
                  is_land(loaded.rows[k].latitude.v, loaded.rows[k].longitude.v)

\* The counts of the dropped-row warnings of the load.
ReportedDrops ==
    {load_ui[k].a : k \in {j \in 1..Len(load_ui) :
                             load_ui[j].ev = "warning: removed rows"}}

\* C13: whenever a loader returns fewer records than the file has rows,
\* it reports the number of dropped rows, raw rows minus records returned.
C13_DroppedRowsReported ==
    (loaded.status = "frame" /\ Len(loaded.rows) < Len(raw))
    => ReportedDrops = {Len(raw) - Len(loaded.rows)}

\* The separator of the incident_type hierarchy, character by character.
Separator == <<"|", "|">>

\* The segment after the last separator of a path, the whole path when it
\* has no separator.
LastSegment(chars) ==
    LET n == Len(chars)
        starts == {k \in 1..(n - 1) : SubSeq(chars, k, k + 1) = Separator}
    IN  IF starts = {} THEN chars
        ELSE LET last == CHOOSE k \in starts : \A j \in starts : j <= k
             IN  SubSeq(chars, last + 2, n)

\* The characters of a string of at most one character.
Chars(str) == IF str = "" THEN <<>> ELSE <<str>>

\* C14: the specific incident type of every record is the last segment of
\* its incident_type path split on '||'.
C14_SpecificTypeIsLastSegment ==
    (loaded.status = "frame"
       /\ loader \in {"dashboard00", "pages/dashboard01", "pages/dashboard02",
                       "dashboard_combine"})
    => \A k \in 1..Len(loaded.rows) :
          Chars(Val(loaded.rows[k].specific_incident_type)) =
              LastSegment(Val(loaded.rows[k].incident_type))

\* C15: every specific incident type offered by the density tab occurs in
\* the records left by the filters upstream of it, date range and location.
C15_OptionsFromUpstreamSubset ==
    DensityTabRan
    => LET upstream ==
               tab1_location_filter(
                 tab1_time_filter(loaded.rows, criteria.date_range[1],
                                  criteria.date_range[2]),
                 criteria.location_type)
       IN  criteria.incident_types \ {"All"}
             \subseteq {Val(upstream[k].specific_incident_type) :
                           k \in 1..Len(upstream)}

(***************************************************************************)
(* SpecCategory : the category views.  main of pages/dashboard02.py and    *)
(* the categorical tab of dashboard_combine.py, each over the frame its    *)
(* loader made of the rows of the file.                                    *)
(***************************************************************************)
MaxCategoryRaw == 2

\* Timestamp.day_name(): day 0 of the epoch is a Thursday.
DayNames ==
    <<"Thursday", "Friday", "Saturday", "Sunday", "Monday", "Tuesday",
      "Wednesday">>

day_name(t) == DayNames[(dt_date(t) % 7) + 1]

\* Series.value_counts() of a sequence of values: value -> occurrences
value_counts(values) ==
    [v \in {values[k] : k \in 1..Len(values)} |->
        Cardinality({k \in 1..Len(values) : values[k] = v})]

\* Series.idxmax(): a label of maximal count (which one of several is left
\* to the order value_counts gives to equal counts); no label, and a
\* ValueError in the code, for an empty series.
idxmax(counts) ==
    {v \in DOMAIN counts : \A w \in DOMAIN counts : counts[v] >= counts[w]}

\* Mutant: a frame never counts as empty.
empty_Never(rows) == FALSE

\* DataFrame.empty
empty(rows) == rows = <<>>

\* streamlit_extras date_range_picker over st.date_input: a pair in order,
\* or one date while the user is picking (st.error and st.stop).
date_range_picker(lo, hi) == date_input_range(lo, hi)

\* pages/dashboard02.py 186-189 and dashboard_combine.py 155: the rows whose
\* alarm date lies in the range (a comparison with NaT is false).
category_time_filter(rows, start_date, end_date) ==
    LET InRange(r) ==
            /\ r.alarm_datetime # Null
            /\ dt_date(r.alarm_datetime.v) >= start_date
            /\ dt_date(r.alarm_datetime.v) <= end_date
    IN  SelectSeq(rows, InRange)

\* pages/dashboard02.py 190 and dashboard_combine.py 156
category_filter(rows, selected_category) ==
    LET Selected(r) == r.incident_category = Some(selected_category)
    IN  SelectSeq(rows, Selected)

\* The day names of the alarms of a frame.
day_names(rows) == [k \in 1..Len(rows) |-> day_name(rows[k].alarm_datetime.v)]

\* Mutant: the percentage is computed whatever the total.
create_animal_rescue_chart_Unguarded(data, selected_category) ==
    LET cats == {Val(data[k].incident_category) : k \in 1..Len(data)}
        animals == [k \in 1..Len(data) |-> data[k].animals_rescued]
        rescued(c) ==
            SumOver({k \in 1..Len(data) : data[k].incident_category = Some(c)},
                    animals)
        total_rescued == SumOver(cats, [c \in cats |-> rescued(c)])
    IN  [c \in cats |->
           [animals_rescued |-> rescued(c),
            Percentage |-> <<rescued(c) * 100, total_rescued>>]]

\* pages/dashboard02.py 96-99: the table behind the chart.  A percentage
\* is the exact quotient <<numerator, denominator>>; the scalar 0 of the
\* else branch is <<0, 1>>.
create_animal_rescue_chart(data, selected_category) ==
    LET cats == {Val(data[k].incident_category) : k \in 1..Len(data)}
        animals == [k \in 1..Len(data) |-> data[k].animals_rescued]
        rescued(c) ==
            SumOver({k \in 1..Len(data) : data[k].incident_category = Some(c)},
                    animals)
        total_rescued == SumOver(cats, [c \in cats |-> rescued(c)])
    IN  [c \in cats |->
           [animals_rescued |-> rescued(c),
            Percentage |-> IF total_rescued > 0
                           THEN <<rescued(c) * 100, total_rescued>>
                           ELSE <<0, 1>>]]

\* dashboard_combine.py 170: groupby('incident_category')['animals_rescued']
\* .sum(), which skips the cells that are not numbers.
rescues_by_cat(data) ==
    LET cats == {Val(data[k].incident_category) : k \in 1..Len(data)}
        animals == [k \in 1..Len(data) |->
                      IF data[k].animals_rescued = Null THEN 0
                      ELSE data[k].animals_rescued.v]
    IN  [c \in cats |->
           SumOver({k \in 1..Len(data) : data[k].incident_category = Some(c)},
                   animals)]

MsPerHour == 3600000

\* Series.dt.hour
dt_hour(t) == (t % MsPerDay) \div MsPerHour

\* strftime('%A, %B %d, %Y') of a date: the name of the weekday and the
\* calendar date.
formatted_date(d) == <<day_name(Timestamp(d)), d>>

\* pd.to_datetime(text).date() of such a text: the calendar date it names.
to_datetime_date(text) == text[2]

CategoryInit ==
    /\ raw \in SeqsUpTo(CategoryRawRow, MaxCategoryRaw)
    /\ source = OkSource
    /\ loader = ""
    /\ loaded = Loaded("none", <<>>)
    /\ load_ui = <<>>
    /\ WeatherParked
    /\ FilterParked

\* pages/dashboard02.py 168-234, main after load_data returned a frame with
\* rows.  An exception (the date of no alarm, the mode of no value) is
\* caught at 233-234.
RunPagesDashboard02 ==
    /\ loader = "pages/dashboard02"
    /\ loaded.status = "frame"
    /\ ~empty(loaded.rows)
    /\ ui = <<>>
    /\ LET df_rows == loaded.rows
           dates == alarm_dates(df_rows)
           categories == {Val(df_rows[k].incident_category) :
                            k \in 1..Len(df_rows)}
           min_date_2 == CHOOSE d \in dates : \A e \in dates : d <= e
           max_date_2 == CHOOSE d \in dates : \A e \in dates : d >= e
       IN  IF dates = {}
           THEN /\ criteria' = <<>>
                /\ time_filtered_df' = <<>>
                /\ filtered_df' = <<>>
                /\ ui' = <<Ev("error: unexpected", 0, 0)>>
           ELSE
           \E selected_category \in categories,
              selected_dates \in date_range_picker(min_date_2, max_date_2) :
             /\ criteria' = [selected_category |-> selected_category,
                             date_range |-> selected_dates]
             /\ IF Len(selected_dates) # 2
                THEN /\ time_filtered_df' = <<>>
                     /\ filtered_df' = <<>>
                     /\ ui' = <<Ev("error: select start and end date", 0, 0)>>
                ELSE LET time_filtered ==
                             category_time_filter(df_rows, selected_dates[1],
                                                  selected_dates[2])
                         category_filtered ==
                             category_filter(time_filtered, selected_category)
                         busiest == idxmax(value_counts(day_names(category_filtered)))
                     IN  /\ time_filtered_df' = time_filtered
                         /\ filtered_df' = category_filtered
                         /\ IF empty(category_filtered)
                            THEN ui' = <<Ev("warning: no incidents found", 0, 0)>>
                            ELSE IF busiest = {}
                            THEN ui' = <<Ev("metric: total incidents",
                                            Len(category_filtered), 0),
                                         Ev("error: unexpected", 0, 0)>>
                            ELSE \E busiest_day \in busiest :
                                   ui' = <<Ev("metric: total incidents",
                                              Len(category_filtered), 0),
                                           Ev("metric: busiest day", busiest_day, 0),
                                           Ev("altair_chart: animal rescue",
                                              create_animal_rescue_chart(
                                                  time_filtered, selected_category),
                                              0),
                                           Ev("altair_chart: incident trend", 0, 0)>>
    /\ UNCHANGED <<app, frame>>
    /\ UNCHANGED <<wvars, lvars>>

\* dashboard_combine.py 140-176 under main, 284-289: the categorical tab
\* over the frame of load_all_data.  An exception raised in the tab ends
\* the run.
RenderCategoricalDashboard ==
    /\ loader = "dashboard_combine"
    /\ loaded.status = "frame"
    /\ ui = <<>>
    /\ LET df_rows == loaded.rows
           dates == alarm_dates(df_rows)
           categories == {Val(df_rows[k].incident_category) :
                            k \in 1..Len(df_rows)}
           Raised(what) ==
               /\ criteria' = <<>>
               /\ time_filtered_df' = <<>>
               /\ filtered_df' = <<>>
               /\ ui' = <<Ev(what, 0, 0)>>
       IN  IF dates = {}
           THEN Raised("exception: NaT has no date")
           ELSE LET min_date_2 == CHOOSE d \in dates : \A e \in dates : d <= e
                    max_date_2 == CHOOSE d \in dates : \A e \in dates : d >= e
                IN  \E selected_category \in categories,
                       selected_dates \in date_range_picker(min_date_2, max_date_2) :
                      /\ criteria' = [selected_category |-> selected_category,
                                      date_range |-> selected_dates]
                      /\ IF Len(selected_dates) # 2
                         THEN /\ time_filtered_df' = <<>>
                              /\ filtered_df' = <<>>
                              /\ ui' = <<Ev("error: select start and end date", 0, 0)>>
                         ELSE LET time_filtered ==
                                      category_time_filter(df_rows,
                                          selected_dates[1], selected_dates[2])
                                  filtered ==
                                      category_filter(time_filtered, selected_category)
                                  busiest ==
                                      idxmax(value_counts(day_names(filtered)))
                              IN  /\ time_filtered_df' = time_filtered
                                  /\ filtered_df' = filtered
                                  /\ IF empty(filtered)
                                     THEN ui' = <<Ev("warning: no incidents found", 0, 0)>>
                                     ELSE IF busiest = {}
                                     THEN ui' = <<Ev("metric: total incidents",
                                                     Len(filtered), 0),
                                                  Ev("exception: ValueError", 0, 0)>>
                                     ELSE \E busiest_day \in busiest :
                                            ui' = <<Ev("metric: total incidents",
                                                       Len(filtered), 0),
                                                    Ev("metric: busiest day",
                                                       busiest_day, 0),
                                                    Ev("altair_chart: animals rescued",
                                                       rescues_by_cat(time_filtered), 0),
                                                    Ev("altair_chart: incident trend",
                                                       0, 0)>>
    /\ UNCHANGED <<app, frame>>
    /\ UNCHANGED <<wvars, lvars>>

\* dashboard04.py 51-66 and its caller, 199-203: rows with an empty
\* required cell, an unparseable alarm or a response time that is no number
\* are dropped.
LoadDashboard04 ==
    /\ loaded.status = "none"
    /\ loader' = "dashboard04"
    /\ LET HasRequired(r) ==
               /\ r.alarm_datetime # Null
               /\ ~IsNone(r.incident_description)
               /\ ~IsNone(r.state)
               /\ r.response_time_minutes # Null
               /\ r.latitude # Null /\ r.longitude # Null
           present == SelectSeq(raw, HasRequired)
           HasAlarm(r) == coerce(r.alarm_datetime) # Null
           HasResponse(r) == coerce(r.response_time_minutes) # Null
           kept == SelectSeq(SelectSeq(present, HasAlarm), HasResponse)
       IN  loaded' = Loaded("frame",
               [k \in 1..Len(kept) |->
                  [alarm_datetime |-> kept[k].alarm_datetime,
                   incident_description |-> kept[k].incident_description,
                   state |-> kept[k].state,
                   response_time_minutes |-> kept[k].response_time_minutes,
                   latitude |-> kept[k].latitude,
                   longitude |-> kept[k].longitude,
                   date |-> dt_date(kept[k].alarm_datetime.v)]])
    /\ load_ui' = <<>>
    /\ UNCHANGED <<raw, source>>
    /\ UNCHANGED <<wvars, fvars>>

\* dashboard04.py 205-220 and 153-168, main after load_data without an API
\* key (the correlator is skipped): the top days, the day selectbox and
\* render_daily_details of the selected day.
RenderDailyDetails ==
    /\ loader = "dashboard04"
    /\ loaded.status = "frame"
    /\ ui = <<>>
    /\ LET df_rows == loaded.rows
           dated == {[date |-> df_rows[k].date, row |-> k] :
                        k \in 1..Len(df_rows)}
       IN  \E top_10 \in render_top_days_analysis(dated) :
             LET options == [a \in 1..Len(top_10) |->
                               formatted_date(top_10[a].date)]
                 table == <<Ev("dataframe: top days", top_10, 0)>>
             IN  IF options = <<>>
                 THEN /\ criteria' = [selected_day |-> None]
                      /\ time_filtered_df' = <<>>
                      /\ filtered_df' = <<>>
                      /\ ui' = table
                 ELSE \E a \in 1..Len(options) :
                        LET selected_day == to_datetime_date(options[a])
                            OnDay(r) == r.date = selected_day
                            day_df == SelectSeq(df_rows, OnDay)
                            hours == [k \in 1..Len(day_df) |->
                                        dt_hour(day_df[k].alarm_datetime.v)]
                            descriptions ==
                                [k \in 1..Len(day_df) |->
                                   Val(day_df[k].incident_description)]
                            busiest_hours == idxmax(value_counts(hours))
                            top_incidents == idxmax(value_counts(descriptions))
                        IN  /\ criteria' = [selected_day |-> Some(selected_day)]
                            /\ time_filtered_df' = day_df
                            /\ filtered_df' = day_df
                            /\ IF empty(day_df)
                               THEN ui' = table \o
                                      <<Ev("warning: no data available", 0, 0)>>
                               ELSE IF busiest_hours = {} \/ top_incidents = {}
                               THEN ui' = table \o
                                      <<Ev("metric: total incidents", Len(day_df), 0),
                                        Ev("exception: ValueError", 0, 0)>>
                               ELSE \E busiest_hour \in busiest_hours,
                                       top_incident \in top_incidents :
                                      ui' = table \o
                                        <<Ev("metric: total incidents",
                                             Len(day_df), 0),
                                          Ev("metric: busiest hour", busiest_hour, 0),
                                          Ev("metric: most common incident",
                                             top_incident, 0),
                                          Ev("dataframe: incidents of the day", 0, 0)>>
    /\ UNCHANGED <<app, frame>>
    /\ UNCHANGED <<wvars, lvars>>

CategoryNext ==
    \/ LoadPagesDashboard02
    \/ LoadAllData
    \/ LoadDashboard04
    \/ RenderDailyDetails
    \/ RunPagesDashboard02
    \/ RenderCategoricalDashboard

SpecCategory == CategoryInit /\ [][CategoryNext]_vars

(***************************************************************************)
(* SpecGeo : the geospatial views from the file to the charts.  main of    *)
(* dashboard01.py and of dashboard03.py and the geospatial tab of          *)
(* dashboard_combine.py: the load function with the handlers of its        *)
(* caller, then the filters and the rendering over the loaded frame.  The  *)
(* file may be absent, unreadable or lack a column.                        *)
(***************************************************************************)
MaxGeoRaw == 1

\* The columns a file is tried without.
MissingColumns == {"alarm_datetime", "state", "incident_type"}

Sources ==
    {Source(f, None) : f \in {"ok", "not_found", "unreadable"}}
      \cup {Source("ok", Some(c)) : c \in MissingColumns}

GeoInit ==
    /\ source \in Sources
    /\ raw \in (IF source.file = "ok" THEN SeqsUpTo(GeoRawRow, MaxGeoRaw)
                ELSE {<<>>})
    /\ loader = ""
    /\ loaded = Loaded("none", <<>>)
    /\ load_ui = <<>>
    /\ WeatherParked
    /\ FilterParked

\* dashboard03.py 72-106 and its caller, 117-127.
LoadDashboard03 ==
    /\ loaded.status = "none"
    /\ loader' = "dashboard03"
    /\ LET exc == load_exception(source, GeoColumns)
           HasRequired(r) ==
               /\ r.alarm_datetime # Null
               /\ r.last_unit_cleared_datetime # Null
               /\ r.response_time_minutes # Null
               /\ r.latitude # Null /\ r.longitude # Null
               /\ ~IsNone(r.incident_description)
               /\ ~IsNone(r.state)
           present == SelectSeq(raw, HasRequired)
           converted ==
               [k \in 1..Len(present) |->
                  [present[k] EXCEPT
                      !.alarm_datetime = coerce(@),
                      !.last_unit_cleared_datetime = coerce(@),
                      !.latitude = coerce(@),
                      !.longitude = coerce(@)]]
           Located(r) ==
               /\ r.alarm_datetime # Null
               /\ r.last_unit_cleared_datetime # Null
               /\ r.latitude # Null /\ r.longitude # Null
           located == SelectSeq(converted, Located)
           is_land_raises ==
               \E k \in 1..Len(located) : located[k].latitude.v > MaxLatitude
           mission_duration(r) ==
               (r.last_unit_cleared_datetime.v - r.alarm_datetime.v)
                   \div MsPerMinute
           HasResponse(r) == coerce(r.response_time_minutes) # Null
           PositiveDuration(r) == mission_duration(r) > 0
           PositiveResponse(r) == r.response_time_minutes.v > 0
           kept == SelectSeq(SelectSeq(SelectSeq(located, HasResponse),
                                       PositiveDuration),
                             PositiveResponse)
           result ==
               [k \in 1..Len(kept) |->
                  [alarm_datetime |-> kept[k].alarm_datetime,
                   last_unit_cleared_datetime |->
                       kept[k].last_unit_cleared_datetime,
                   response_time_minutes |-> kept[k].response_time_minutes,
                   latitude |-> kept[k].latitude,
                   longitude |-> kept[k].longitude,
                   incident_description |-> kept[k].incident_description,
                   state |-> kept[k].state,
                   mission_duration |-> mission_duration(kept[k]),
                   on_land |-> is_land(kept[k].latitude.v, kept[k].longitude.v)]]
       IN  IF ~IsNone(exc)
           THEN /\ loaded' = Loaded("exception", <<>>)
                /\ load_ui' =
                     IF Val(exc) = "FileNotFoundError"
                     THEN <<Ev("error: data file not found", 0, 0)>>
                     ELSE IF Val(exc) = "KeyError"
                     THEN <<Ev("error: a required column is missing", 0, 0)>>
                     ELSE <<Ev("exception: EmptyDataError", 0, 0)>>
           ELSE IF is_land_raises
           THEN /\ loaded' = Loaded("exception", <<>>)
                /\ load_ui' = <<Ev("exception: ValueError", 0, 0)>>
           ELSE IF result = <<>>
           THEN /\ loaded' = Loaded("empty", <<>>)
                /\ load_ui' = <<Ev("error: no data available after cleaning", 0, 0)>>
           ELSE /\ loaded' = Loaded("frame", result)
                /\ load_ui' = <<>>
    /\ UNCHANGED <<raw, source>>
    /\ UNCHANGED <<wvars, fvars>>

\* What a script shows for a date range of one date: dashboard01.py 247-249,
\* dashboard03.py 137-139, dashboard_combine.py 201 (a silent return).
incomplete_range(script) ==
    IF script = "dashboard_combine" THEN <<Ev("filters", 0, 0)>>
    ELSE <<Ev("warning: select a valid date range", 0, 0)>>

\* The summary panel: dashboard01.py 183-195, dashboard03.py 211-222,
\* dashboard_combine.py 216-220.
summary_panel(script, rows) ==
    IF rows # <<>> THEN <<Ev("metric: total incidents found", Len(rows), 0)>>
    ELSE IF script = "dashboard_combine" THEN <<>>
    ELSE <<Ev("warning: no incidents match", 0, 0)>>

\* The scatter of mission duration against response time over the rows
\* handed to it: dashboard01.py 202-215, dashboard03.py 229-243,
\* dashboard_combine.py 223-227.
scatter_panel(script, rows) ==
    IF rows # <<>>
    THEN <<Ev("altair_chart: mission duration vs response time", rows, 0)>>
    ELSE IF script = "dashboard_combine" THEN <<>>
    ELSE <<Ev("write: no data to analyze", 0, 0)>>

\* dashboard01.py 246-276, dashboard03.py 129-243 and
\* dashboard_combine.py 181-227 over the loaded frame: the filter widgets,
\* the filters and the panels.  The date of no alarm ends the run.
GeoView(script) ==
    /\ loaded.status = "frame"
    /\ ui = <<>>
    /\ LET df_rows == loaded.rows
           dates == alarm_dates(df_rows)
           descriptions == {Val(df_rows[k].incident_description) :
                               k \in 1..Len(df_rows)}
           states == {Val(df_rows[k].state) : k \in 1..Len(df_rows)}
       IN  IF dates = {}
           THEN /\ criteria' = <<>>
                /\ time_filtered_df' = <<>>
                /\ filtered_df' = <<>>
                /\ ui' = <<Ev("exception: NaT has no date", 0, 0)>>
           ELSE LET min_date_3 == CHOOSE d \in dates : \A e \in dates : d <= e
                    max_date_3 == CHOOSE d \in dates : \A e \in dates : d >= e
                IN  \E date_range \in date_input_range(min_date_3, max_date_3),
                       selected_descs \in SUBSET descriptions,
                       selected_state \in {"ALL STATES"} \cup states,
                       location_type \in Locations :
                      /\ criteria' = Criteria(date_range, location_type, "All",
                                              selected_descs, selected_state, {})
                      /\ IF Len(date_range) # 2
                         THEN /\ time_filtered_df' = <<>>
                              /\ filtered_df' = <<>>
                              /\ ui' = incomplete_range(script)
                         ELSE LET InWindow(r) ==
                                      /\ r.alarm_datetime # Null
                                      /\ in_window(script, r.alarm_datetime.v,
                                                   date_range[1], date_range[2])
                                  Described(r) ==
                                      Val(r.incident_description) \in selected_descs
                                  InState(r) ==
                                      selected_state # "ALL STATES" =>
                                          Val(r.state) = selected_state
                                  Located(r) ==
                                      /\ location_type = "Land Only" => r.on_land
                                      /\ location_type = "Water Only" => ~r.on_land
                                  in_range == SelectSeq(df_rows, InWindow)
                                  result ==
                                      SelectSeq(SelectSeq(SelectSeq(in_range,
                                          Described), InState), Located)
                              IN  /\ time_filtered_df' = in_range
                                  /\ filtered_df' = result
                                  /\ ui' = <<Ev("map", Len(result), 0)>>
                                             \o summary_panel(script, result)
                                             \o scatter_panel(script, result)
    /\ UNCHANGED <<app, frame>>
    /\ UNCHANGED <<wvars, lvars>>

\* dashboard01.py 246-276
MainDashboard01 ==
    /\ loader = "dashboard01"
    /\ GeoView("dashboard01")

\* dashboard03.py 129-243
MainDashboard03 ==
    /\ loader = "dashboard03"
    /\ GeoView("dashboard03")

\* dashboard_combine.py 181-227 under main, 284-291
RenderGeospatialDashboard ==
    /\ loader = "dashboard_combine"
    /\ GeoView("dashboard_combine")

GeoNext ==
    \/ LoadDashboard01
    \/ LoadDashboard03
    \/ LoadAllData
    \/ MainDashboard01
    \/ MainDashboard03
    \/ RenderGeospatialDashboard

SpecGeo == GeoInit /\ [][GeoNext]_vars

(***************************************************************************)
(* Properties of the category views.                                       *)
(***************************************************************************)
\* The run of pages/dashboard02.py drew the animal-rescue chart.
RescueChartShown ==
    /\ loader = "pages/dashboard02"
    /\ Len(ui) = 4
    /\ ui[3].ev = "altair_chart: animal rescue"

RescueTable == ui[3].a

GrandTotal ==
    SumOver(DOMAIN RescueTable,
            [c \in DOMAIN RescueTable |-> RescueTable[c].animals_rescued])

\* C23: when the animals rescued of the charted rows sum to zero, every
\* group of the chart has the percentage 0 and the run reports no fault;
\* over no rows at all the table is empty.
C23_ZeroTotalZeroShare ==
    /\ DOMAIN create_animal_rescue_chart(<<>>, "Fire") = {}
    /\ loader = "pages/dashboard02" =>
          \A k \in 1..Len(ui) : ui[k].ev # "error: unexpected"
    /\ (RescueChartShown /\ GrandTotal = 0) =>
          \A c \in DOMAIN RescueTable :
              /\ RescueTable[c].Percentage[1] = 0
              /\ RescueTable[c].Percentage[2] # 0

\* A chart of two groups whose total is zero.
C23_Witness ==
    /\ RescueChartShown
    /\ GrandTotal = 0
    /\ Cardinality(DOMAIN RescueTable) = 2

\* C24: when the animals rescued of the charted rows do not sum to zero,
\* the percentages of the groups sum to 100.
C24_SharesSumTo100 ==
    (RescueChartShown /\ GrandTotal # 0) =>
        LET cats == DOMAIN RescueTable
            den == GrandTotal
        IN  /\ \A c \in cats : RescueTable[c].Percentage[2] = den
            /\ SumOver(cats, [c \in cats |-> RescueTable[c].Percentage[1]])
                 = 100 * den

\* The run of a category or daily view got as far as its filtered frame.
FilteredFrameComputed ==
    /\ ui # <<>>
    /\ criteria # <<>>
    /\ IF loader = "dashboard04"
       THEN ~IsNone(criteria.selected_day)
       ELSE Len(criteria.date_range) = 2

\* v occurs in the sequence at least as often as every other value.
MostFrequent(v, values) ==
    LET Count(w) == Cardinality({k \in 1..Len(values) : values[k] = w})
    IN  /\ Count(v) >= 1
        /\ \A k \in 1..Len(values) : Count(v) >= Count(values[k])

\* C25: no mode is taken over an empty frame: a view whose filtered (or
\* per-day) frame is empty shows the no-data warning and nothing after it,
\* and a busiest day, busiest hour or most common incident that is shown
\* is a most frequent value of the non-empty filtered frame.
C25_ModeOnlyOverData ==
    /\ \A k \in 1..Len(ui) :
          ui[k].ev \notin {"exception: ValueError", "error: unexpected"}
    /\ (FilteredFrameComputed /\ filtered_df = <<>>) =>
          /\ ui[Len(ui)].ev \in {"warning: no incidents found",
                                 "warning: no data available"}
          /\ \A k \in 1..Len(ui) :
                ui[k].ev \notin {"metric: busiest day", "metric: busiest hour",
                                 "metric: most common incident"}
    /\ \A k \in 1..Len(ui) :
          /\ ui[k].ev = "metric: busiest day" =>
                MostFrequent(ui[k].a,
                    [j \in 1..Len(filtered_df) |->
                        day_name(filtered_df[j].alarm_datetime.v)])
          /\ ui[k].ev = "metric: busiest hour" =>
                MostFrequent(ui[k].a,
                    [j \in 1..Len(filtered_df) |->
                        (filtered_df[j].alarm_datetime.v % MsPerDay)
                            \div MsPerHour])
          /\ ui[k].ev = "metric: most common incident" =>
                MostFrequent(ui[k].a,
                    [j \in 1..Len(filtered_df) |->
                        Val(filtered_df[j].incident_description)])

\* A category view whose filtered frame is empty showed the warning.
C25_Witness ==
    /\ loader \in {"pages/dashboard02", "dashboard_combine"}
    /\ FilteredFrameComputed
    /\ filtered_df = <<>>
    /\ time_filtered_df # <<>>
    /\ ui = <<Ev("warning: no incidents found", 0, 0)>>

(***************************************************************************)
(* Properties of the geospatial views.                                     *)
(***************************************************************************)
\* The diagnostics of a failed load: the st.error of the caller's handler,
\* or the report of an exception no handler caught.
LoadDiagnostics ==
    {"error: loading data", "error: data file not found",
     "error: a required column is missing",
     "error: critical error loading data", "exception: EmptyDataError"}

\* C26: when the file is absent, unreadable or lacks a required column,
\* the load function yields no frame, one diagnostic is shown and no
\* filter or panel runs.
C26_LoadFailureIsFatal ==
    (source # OkSource /\ loader # "") =>
        /\ loaded.status = "exception"
        /\ Len(load_ui) = 1
        /\ load_ui[1].ev \in LoadDiagnostics
        /\ ui = <<>>
        /\ filtered_df = {}

\* C27: every row handed to the scatter of mission duration against
\* response time has a mission duration above zero and a response time
\* above zero.
C27_ScatterRowsPositive ==
    \A k \in 1..Len(ui) :
        ui[k].ev = "altair_chart: mission duration vs response time" =>
            \A j \in 1..Len(ui[k].a) :
                LET r == ui[k].a[j]
                    duration == IF loader = "dashboard_combine"
                                THEN r.mission_duration
                                ELSE Some(r.mission_duration)
                IN  /\ ~IsNone(duration)
                    /\ Val(duration) > 0
                    /\ r.response_time_minutes # Null
                    /\ r.response_time_minutes.v > 0

====
